---- MODULE Spec2Model ----
(***************************************************************************)
(* Model of the stock-price-api core: the series aligner and the           *)
(* statistics functions of utils/mathUtils.js, the tiered cache of         *)
(* services/cacheService.js, fetchWithRetry and fetchStockPriceHistory of  *)
(* services/stockApiService.js, and the request validators of              *)
(* middleware/validators.js.  Each part has its own specification; the     *)
(* variables of the other parts stay idle.                                 *)
(*                                                                         *)
(* Abstractions.  An ISO-8601 lastUpdatedAt string is the pair             *)
(* <<seconds, milliseconds>> it denotes; Date.getTime() turns it into a    *)
(* number of milliseconds and toISOString() turns that number back.  A     *)
(* price of the aligner is an exact rational [num, den]; the code computes *)
(* in float64, so rounding of the interpolated price is not modelled.  The *)
(* numbers of the statistics functions are binary floating-point numbers   *)
(* of Precision significant bits, rounded after every operation.  A string *)
(* is a sequence of UTF-16 code units.  A cached value is an object        *)
(* identity; heap holds the content of each object.                        *)
(***************************************************************************)
EXTENDS Integers, Sequences, FiniteSets, TLC

VARIABLES
    caches,       \* tier -> the NodeCache's data: key -> [v: value, t: expiry]
    now,          \* Date.now(), in seconds
    callerParams, \* the params object of the last cache call, after the call
    result,       \* what the last getCachedData returned
    lastTier,     \* the tier the last cache call used
    lastPut,      \* the last setCachedData call: its arguments as passed
    lastCall,     \* the last cache call: "set" or "get", its type and its
                  \* params as passed
    opCount,      \* cache calls so far
    putLog,       \* request -> the last set for it: [value, at, ttl]
    getAt,        \* the time of the last getCachedData
    invalidated,  \* the last invalidateCache: its pattern and returned count
    heap,         \* object -> its content; Values are the objects
    pc,           \* request -> where its fetchStockPriceHistory call stands
    reqParams,    \* request -> the params object of its call
    upstream,     \* request -> how the upstream answered its fetch
    response,     \* request -> what its call returned or threw
    storeOrder,   \* the requests that stored, in the order of their sets
    retryPc,      \* where the fetchWithRetry call stands
    retries,      \* its local retries
    attempts,     \* the apiClient.get calls it made
    delays,       \* the backoff delays it waited for, in order, in ms
    caught,       \* the errors its catch block received, in order
    settled,      \* what it returned or threw
    xValues,      \* the numbers handed to the statistics functions
    yValues,      \* the second array handed to calculateCorrelation
    aggType,      \* the type argument of calculateAggregation
    statOut,      \* what the statistics functions returned
    statPc,       \* "call" before the call, "done" after it
    stockData1,   \* first argument of timeAlignPriceData
    stockData2,   \* second argument of timeAlignPriceData
    lastAllTimestamps, \* the local allTimestamps of that call
    alignedData,  \* the object timeAlignPriceData returned
    alignPc       \* "call" before the call, "done" after it

alignVars == <<stockData1, stockData2, lastAllTimestamps, alignedData, alignPc>>

cacheVars == <<caches, now, callerParams, result, lastTier, lastPut, lastCall, opCount>>

logVars == <<putLog, getAt, invalidated>>

\* Everything but the cache / but the aligner.
historyVars == <<pc, reqParams, upstream, response, storeOrder>>

\* The parts that have nothing to do with the cache calls and the aligner.
retryVars == <<retryPc, retries, attempts, delays, caught, settled>>

statVars == <<xValues, yValues, aggType, statOut, statPc>>

farVars == <<historyVars, retryVars, statVars>>

nonCacheVars == <<alignVars, logVars, heap, farVars>>
nonAlignVars == <<cacheVars, logVars, heap, farVars>>

\* What the cache calls neither read nor write.
outsideVars == <<alignVars, heap, farVars>>

vars == <<caches, now, callerParams, result, lastTier, lastPut, lastCall, opCount,
          putLog, getAt, invalidated, heap,
          pc, reqParams, upstream, response, storeOrder,
          retryPc, retries, attempts, delays, caught, settled,
          xValues, yValues, aggType, statOut, statPc,
          stockData1, stockData2, lastAllTimestamps, alignedData, alignPc>>

(***************************************************************************)
(* Bounds of the aligner's inputs.                                         *)
(***************************************************************************)
\* Longest input series.
MaxLen == 3

\* The lastUpdatedAt strings upstream may deliver, as <<seconds, ms>>:
\* the epoch itself, three instants with 3-digit getTime() and one whose
\* getTime() has 4 digits.
IsoInstants == {<<0, 0>>, <<0, 500>>, <<0, 700>>, <<0, 900>>, <<1, 0>>}

\* Price of the i-th point upstream delivers for the first / second ticker.
Price1(i) == 10 * i
Price2(i) == 3 * i * i + 1

(***************************************************************************)
(* Dates, numbers and strings as JavaScript treats them.                   *)
(***************************************************************************)
\* new Date(iso).getTime(): milliseconds since the epoch.
DateParse(iso) == iso[1] * 1000 + iso[2]

\* new Date(ms).toISOString()
ToISOString(ms) == <<ms \div 1000, ms % 1000>>

\* Number.prototype.toString of a non-negative integer: the code units of
\* its decimal digits ("0" is 48).
RECURSIVE NumberToString(_)
NumberToString(n) ==
    IF n < 10 THEN <<48 + n>>
    ELSE Append(NumberToString(n \div 10), 48 + (n % 10))

\* a < b for strings: comparison by code units, a proper prefix first.
RECURSIVE StringLess(_, _)
StringLess(a, b) ==
    IF b = <<>> THEN FALSE
    ELSE IF a = <<>> THEN TRUE
    ELSE IF Head(a) # Head(b) THEN Head(a) < Head(b)
    ELSE StringLess(Tail(a), Tail(b))

\* The order Array.prototype.sort uses when no comparator is given: the
\* elements are converted to strings and the strings compared.
SortCompareLess(x, y) == StringLess(NumberToString(x), NumberToString(y))

RECURSIVE InsertSorted(_, _)
InsertSorted(x, sorted) ==
    IF sorted = <<>> THEN <<x>>
    ELSE IF SortCompareLess(x, Head(sorted)) THEN <<x>> \o sorted
    ELSE <<Head(sorted)>> \o InsertSorted(x, Tail(sorted))

\* Array.prototype.sort() with the default comparator.
RECURSIVE ArraySort(_)
ArraySort(arr) ==
    IF arr = <<>> THEN <<>>
    ELSE InsertSorted(arr[Len(arr)], ArraySort(SubSeq(arr, 1, Len(arr) - 1)))

\* The value findNearest returns when it finds nothing.
Null == -1

\* JavaScript truthiness of what findNearest returns: null and 0 are falsy.
Truthy(v) == v # Null /\ v # 0

\* The elements of arr, each kept at its first occurrence: [...new Set(arr)].
RECURSIVE SetOrder(_)
SetOrder(arr) ==
    IF arr = <<>> THEN <<>>
    ELSE LET front == SetOrder(SubSeq(arr, 1, Len(arr) - 1))
             last  == arr[Len(arr)]
         IN  IF \E i \in 1..Len(front) : front[i] = last
             THEN front ELSE Append(front, last)

Range(seq) == {seq[i] : i \in 1..Len(seq)}

(***************************************************************************)
(* utils/mathUtils.js: timeAlignPriceData and its helpers.                 *)
(***************************************************************************)
\* The Map filled by stockData.forEach(entry => map.set(timestamp, entry)):
\* its keys in insertion order, and the entry each key holds (the last one
\* set for it).
BuildMap(stockData) ==
    LET ts == [i \in 1..Len(stockData) |-> DateParse(stockData[i].lastUpdatedAt)]
    IN  [keys |-> SetOrder(ts),
         val  |-> [t \in Range(ts) |->
                     stockData[CHOOSE i \in 1..Len(stockData) :
                         /\ ts[i] = t
                         /\ \A j \in 1..Len(stockData) : ts[j] = t => j <= i]]]

MapHas(map, t) == t \in DOMAIN map.val

\* timestamps.indexOf(target), 1-based; 0 when absent.
IndexOf(timestamps, target) ==
    IF \E i \in 1..Len(timestamps) : timestamps[i] = target
    THEN CHOOSE i \in 1..Len(timestamps) :
            /\ timestamps[i] = target
            /\ \A j \in 1..(i - 1) : timestamps[j] # target
    ELSE 0

\* findNearest: the closest element of timestamps, left ('before') or right
\* ('after') of target's index, that is a key of dataMap; null if none.
findNearest(timestamps, target, dataMap, direction) ==
    LET at   == IndexOf(timestamps, target)
        cand == IF direction = "before"
                THEN {i \in 1..(at - 1) : MapHas(dataMap, timestamps[i])}
                ELSE {i \in (at + 1)..Len(timestamps) : MapHas(dataMap, timestamps[i])}
    IN  IF cand = {} THEN Null
        ELSE IF direction = "before"
             THEN timestamps[CHOOSE i \in cand : \A j \in cand : j <= i]
             ELSE timestamps[CHOOSE i \in cand : \A j \in cand : j >= i]

\* beforePrice + (afterPrice - beforePrice) * ratio, with
\* ratio = (currentTime - before) / (after - before), as an exact rational.
InterpolatedPrice(beforePrice, afterPrice, before, after, currentTime) ==
    [num |-> beforePrice.num * afterPrice.den * (after - before)
               + (afterPrice.num * beforePrice.den - beforePrice.num * afterPrice.den)
                   * (currentTime - before),
     den |-> beforePrice.den * afterPrice.den * (after - before)]

\* One iteration of interpolateMissingData's loop for one stock: what it
\* pushes onto that stock's result (one entry, or nothing).
ResolvePoint(allTimestamps, currentTime, stockMap) ==
    IF MapHas(stockMap, currentTime) THEN <<stockMap.val[currentTime]>>
    ELSE LET before == findNearest(allTimestamps, currentTime, stockMap, "before")
             after  == findNearest(allTimestamps, currentTime, stockMap, "after")
         IN  IF Truthy(before) /\ Truthy(after)
             THEN <<[price        |-> InterpolatedPrice(stockMap.val[before].price,
                                          stockMap.val[after].price,
                                          before, after, currentTime),
                     lastUpdatedAt |-> ToISOString(currentTime),
                     interpolated  |-> TRUE]>>
             ELSE IF Truthy(before) THEN <<stockMap.val[before]>>
             ELSE IF Truthy(after) THEN <<stockMap.val[after]>>
             ELSE <<>>

RECURSIVE ResolveAll(_, _, _)
ResolveAll(allTimestamps, n, stockMap) ==
    IF n = 0 THEN <<>>
    ELSE ResolveAll(allTimestamps, n - 1, stockMap)
            \o ResolvePoint(allTimestamps, allTimestamps[n], stockMap)

interpolateMissingData(sd1, sd2, allTimestamps, stock1Map, stock2Map) ==
    [stock1 |-> ResolveAll(allTimestamps, Len(allTimestamps), stock1Map),
     stock2 |-> ResolveAll(allTimestamps, Len(allTimestamps), stock2Map)]

\* [...new Set([...stock1Map.keys(), ...stock2Map.keys()])].sort()
\* The same without the sort: insertion order, stock 1's keys first.
AllTimestampsUnsorted(stock1Map, stock2Map) ==
    SetOrder(stock1Map.keys \o stock2Map.keys)

\* The same without the Set: a key of both maps twice.
AllTimestampsKeepDuplicates(stock1Map, stock2Map) ==
    ArraySort(stock1Map.keys \o stock2Map.keys)

AllTimestamps(stock1Map, stock2Map) ==
    ArraySort(SetOrder(stock1Map.keys \o stock2Map.keys))

\* The intersection pass: the entries of stockMap at the timestamps both
\* maps have, in allTimestamps' order.
RECURSIVE AlignedPass(_, _, _, _)
AlignedPass(allTimestamps, n, stockMap, otherMap) ==
    IF n = 0 THEN <<>>
    ELSE LET t == allTimestamps[n]
         IN  AlignedPass(allTimestamps, n - 1, stockMap, otherMap)
               \o (IF MapHas(stockMap, t) /\ MapHas(otherMap, t)
                   THEN <<stockMap.val[t]>> ELSE <<>>)

\* aligned1.length <= 2: interpolation although two timestamps are shared.
TooFewAlignedOffByOne(aligned1) == Len(aligned1) <= 2

\* aligned1.length < 2
TooFewAligned(aligned1) == Len(aligned1) < 2

timeAlignPriceData(sd1, sd2) ==
    LET stock1Map     == BuildMap(sd1)
        stock2Map     == BuildMap(sd2)
        allTimestamps == AllTimestamps(stock1Map, stock2Map)
        aligned1      == AlignedPass(allTimestamps, Len(allTimestamps), stock1Map, stock2Map)
        aligned2      == AlignedPass(allTimestamps, Len(allTimestamps), stock2Map, stock1Map)
    IN  IF Len(allTimestamps) <= 1
        THEN [stock1 |-> sd1, stock2 |-> sd2]
        ELSE IF TooFewAligned(aligned1)
        THEN interpolateMissingData(sd1, sd2, allTimestamps, stock1Map, stock2Map)
        ELSE [stock1 |-> aligned1, stock2 |-> aligned2]

(***************************************************************************)
(* services/cacheService.js: the three NodeCache tiers, the key builder    *)
(* and the get / set wrappers.                                             *)
(***************************************************************************)
\* Bounds of the cache's runs: the number of cache calls, and the latest
\* time the clock reaches (seconds).
MaxOps == 2
MaxNow == 11

\* The clock's steps, in seconds: past the shortest stdTTL in one step.
TickSteps == {11}

\* Strings as sequences of code units.
StrA         == <<65>>                                \* "A"
StrB         == <<66>>                                \* "B"
StrColon     == <<58>>                                \* ":"
StrUnderscore == <<95>>                               \* "_"
StrCorr      == <<99, 111, 114, 114>>                 \* "corr"
StrStock     == <<115, 116, 111, 99, 107>>            \* "stock"
StrHistory   == <<104, 105, 115, 116, 111, 114, 121>> \* "history"
StrAverage   == <<97, 118, 101, 114, 97, 103, 101>>   \* "average"
StrMedian    == <<109, 101, 100, 105, 97, 110>>       \* "median"

\* What the validators let through: upper-case tickers, 1 <= minutes <= 1440,
\* a known aggregation.
Tickers == {StrA, StrB}
MinutesSet == {5, 6, 30, 31}
Aggregations == {StrAverage, StrMedian}

\* The params objects the controllers and the API service build.
ParamsOf(kind) ==
    IF kind = "correlation"
    THEN [tickers : [1..2 -> Tickers], minutes : MinutesSet]
    ELSE IF kind = "stockHistory"
    THEN [ticker : Tickers, minutes : MinutesSet]
    ELSE [ticker : Tickers, minutes : MinutesSet, aggregation : Aggregations]

Kinds == {"correlation", "stockHistory", "stockPrice"}

Values == {"v1", "v2"}

\* cache.get's answer for a key it does not hold (or holds expired).
Undefined == "undefined"

Tiers == {"short", "medium", "long"}

\* stdTTL of each tier, in seconds.
StdTTL == [short |-> 10, medium |-> 60, long |-> 300]

RECURSIVE InsertSortedString(_, _)
InsertSortedString(x, sorted) ==
    IF sorted = <<>> THEN <<x>>
    ELSE IF StringLess(x, Head(sorted)) THEN <<x>> \o sorted
    ELSE <<Head(sorted)>> \o InsertSortedString(x, Tail(sorted))

\* Array.prototype.sort() of an array of strings, default comparator.
RECURSIVE ArraySortStrings(_)
ArraySortStrings(arr) ==
    IF arr = <<>> THEN <<>>
    ELSE InsertSortedString(arr[Len(arr)],
                            ArraySortStrings(SubSeq(arr, 1, Len(arr) - 1)))

\* Array.prototype.join
RECURSIVE Join(_, _)
Join(arr, sep) ==
    IF arr = <<>> THEN <<>>
    ELSE IF Len(arr) = 1 THEN arr[1]
    ELSE arr[1] \o sep \o Join(Tail(arr), sep)

\* params.tickers as given: the key a builder without the sort would make.
TickersAsGiven(tickers) == tickers

\* params.tickers.sort(): sorts the caller's array in place and returns it.
SortTickers(tickers) == ArraySortStrings(tickers)

createCacheKey(type, params) ==
    IF type = "stockPrice"
    THEN StrStock \o StrColon \o params.ticker \o StrColon
            \o NumberToString(params.minutes) \o StrColon \o params.aggregation
    ELSE IF type = "stockHistory"
    THEN StrHistory \o StrColon \o params.ticker \o StrColon
            \o NumberToString(params.minutes)
    ELSE StrCorr \o StrColon \o Join(SortTickers(params.tickers), StrUnderscore)
            \o StrColon \o NumberToString(params.minutes)

\* The params object after createCacheKey ran on it.
ParamsAfterKey(type, params) ==
    IF type = "correlation"
    THEN [params EXCEPT !.tickers = SortTickers(params.tickers)]
    ELSE params

\* if (minutes < 5) ... : the boundary one minute early.
getCacheForTypeOffByOne(type, minutes) ==
    IF minutes < 5 THEN "short"
    ELSE IF minutes <= 30 THEN "medium"
    ELSE "long"

getCacheForType(type, minutes) ==
    IF minutes <= 5 THEN "short"
    ELSE IF minutes <= 30 THEN "medium"
    ELSE "long"

\* NodeCache: a key is expired once its expiry time is set and has passed.
Expired(entry, time) == entry.t # 0 /\ entry.t < time

\* cache.get(key)
NodeCacheGet(data, key, time) ==
    IF key \in DOMAIN data /\ ~Expired(data[key], time)
    THEN data[key].v ELSE Undefined

\* The data of a NodeCache after cache.get(key): an expired key is deleted.
NodeCacheAfterGet(data, key, time) ==
    IF key \in DOMAIN data /\ Expired(data[key], time)
    THEN [k \in DOMAIN data \ {key} |-> data[k]]
    ELSE data

\* cache.set(key, value, ttl) that leaves a key it already holds alone.
NodeCacheAfterSetKeepFirst(data, key, value, ttl, stdTTL, time) ==
    LET t == IF ttl = 0 THEN 0
             ELSE IF ttl # Null THEN time + ttl
             ELSE time + stdTTL
    IN  [k \in DOMAIN data \cup {key} |->
            IF k \in DOMAIN data THEN data[k] ELSE [v |-> value, t |-> t]]

\* The data of a NodeCache after cache.set(key, value, ttl): ttl null means
\* the tier's stdTTL, ttl 0 means no expiry.
NodeCacheAfterSet(data, key, value, ttl, stdTTL, time) ==
    LET t == IF ttl = 0 THEN 0
             ELSE IF ttl # Null THEN time + ttl
             ELSE time + stdTTL
    IN  [k \in DOMAIN data \cup {key} |->
            IF k = key THEN [v |-> value, t |-> t] ELSE data[k]]

EmptyData == [k \in {} |-> [v |-> Undefined, t |-> 0]]

NoPut == [type |-> "none", params |-> <<>>, value |-> Undefined, at |-> 0]

NoParams == <<>>

NoCall == [op |-> "none", type |-> "none", params |-> NoParams]

CacheIdle ==
    /\ caches = [tier \in Tiers |-> EmptyData]
    /\ now = 0
    /\ callerParams = NoParams
    /\ result = Undefined
    /\ lastTier = "none"
    /\ lastPut = NoPut
    /\ lastCall = NoCall
    /\ opCount = 0

\* No set and no get logged yet.
LogIdle ==
    /\ putLog = <<>>
    /\ getAt = 0
    /\ invalidated = [pattern |-> <<>>, count |-> 0]

\* The content of an object as its creator built it, and after a caller
\* changed it.
Contents == {"original", "mutated"}

\* Every result object as built.
HeapIdle == heap = [obj \in Values |-> "original"]

(***************************************************************************)
(* Numbers.  A JavaScript number is a binary floating-point number: every  *)
(* arithmetic result is the exact result rounded to the nearest number     *)
(* with Precision significant bits, ties to the even one (53 bits in       *)
(* float64).  A number is [m, e], standing for m * 2^e, with m odd or      *)
(* m = e = 0.  The exponent range is not bounded: no overflow or underflow *)
(* happens at the magnitudes used.                                         *)
(***************************************************************************)
Precision == 3

Abs(n) == IF n < 0 THEN 0 - n ELSE n

Min2(a, b) == IF a < b THEN a ELSE b

\* The number of bits of a natural number.
RECURSIVE BitLength(_)
BitLength(n) == IF n = 0 THEN 0 ELSE 1 + BitLength(n \div 2)

\* m * 2^e with the mantissa made odd; a is positive.
RECURSIVE Odd(_, _, _)
Odd(negative, a, e) ==
    IF a % 2 = 0 THEN Odd(negative, a \div 2, e + 1)
    ELSE [m |-> IF negative THEN 0 - a ELSE a, e |-> e]

FZero == [m |-> 0, e |-> 0]

Canonical(m, e) == IF m = 0 THEN FZero ELSE Odd(m < 0, Abs(m), e)

\* The exact value m * 2^e as a number: rounded to nearest, ties to even.
Round(m, e) ==
    LET a == Abs(m)
        k == BitLength(a) - Precision
    IN  IF k <= 0 THEN Canonical(m, e)
        ELSE LET q    == a \div 2^k
                 r    == a % 2^k
                 half == 2^(k - 1)
                 q2   == IF r > half \/ (r = half /\ q % 2 = 1) THEN q + 1 ELSE q
             IN  Canonical(IF m < 0 THEN 0 - q2 ELSE q2, e + k)

\* An integer below 2^Precision, as a number.
FromInt(n) == Canonical(n, 0)

\* x + y
FAdd(x, y) ==
    LET e == Min2(x.e, y.e)
    IN  Round(x.m * 2^(x.e - e) + y.m * 2^(y.e - e), e)

\* x - y
FSub(x, y) == FAdd(x, [m |-> 0 - y.m, e |-> y.e])

\* x * y
FMul(x, y) == Round(x.m * y.m, x.e + y.e)

\* x / y for y # 0: the quotient to 2 * Precision + 2 bits with a sticky
\* bit for the remainder, rounded.
FDiv(x, y) ==
    IF x.m = 0 THEN FZero
    ELSE LET k  == 2 * Precision + 2
             a  == Abs(x.m) * 2^k
             b  == Abs(y.m)
             q  == a \div b
             t  == 2 * q + (IF a % b = 0 THEN 0 ELSE 1)
         IN  Round(IF (x.m < 0) # (y.m < 0) THEN 0 - t ELSE t, x.e - y.e - k - 1)

\* Math.sqrt(x) for x >= 0: the integer square root of the mantissa,
\* scaled to an even exponent, with a sticky bit, rounded.
FSqrt(x) ==
    IF x.m = 0 THEN FZero
    ELSE LET shift == 2 * (Precision + 1) + (x.e % 2)
             big   == x.m * 2^shift
             root  == CHOOSE r \in 0..2^(2 * Precision + 2) :
                          r * r <= big /\ big < (r + 1) * (r + 1)
             t     == 2 * root + (IF root * root = big THEN 0 ELSE 1)
         IN  Round(t, ((x.e - shift) \div 2) - 1)

\* x < y
FLess(x, y) ==
    LET e == Min2(x.e, y.e)
    IN  x.m * 2^(x.e - e) < y.m * 2^(y.e - e)

(***************************************************************************)
(* The statistics functions of utils/mathUtils.js.                         *)
(***************************************************************************)

\* numbers.reduce((sum, val) => sum + val, 0)
RECURSIVE ReduceSum(_)
ReduceSum(numbers) ==
    IF numbers = <<>> THEN FZero
    ELSE FAdd(ReduceSum(SubSeq(numbers, 1, Len(numbers) - 1)), numbers[Len(numbers)])

calculateMean(numbers) ==
    IF numbers = <<>> THEN FZero
    ELSE FDiv(ReduceSum(numbers), FromInt(Len(numbers)))

\* [...numbers].sort((a, b) => a - b)
RECURSIVE InsertNumber(_, _)
InsertNumber(sorted, x) ==
    IF sorted = <<>> THEN <<x>>
    ELSE IF FLess(x, Head(sorted)) THEN <<x>> \o sorted
    ELSE <<Head(sorted)>> \o InsertNumber(Tail(sorted), x)

RECURSIVE SortNumbers(_)
SortNumbers(numbers) ==
    IF numbers = <<>> THEN <<>>
    ELSE InsertNumber(SortNumbers(SubSeq(numbers, 1, Len(numbers) - 1)),
                      numbers[Len(numbers)])

calculateMedian(numbers) ==
    IF numbers = <<>> THEN FZero
    ELSE LET sorted      == SortNumbers(numbers)
             middleIndex == Len(sorted) \div 2     \* 0-based
         IN  IF Len(sorted) % 2 = 0
             THEN FDiv(FAdd(sorted[middleIndex], sorted[middleIndex + 1]), FromInt(2))
             ELSE sorted[middleIndex + 1]

\* numbers.map(num => Math.pow(num - mean, 2))
SquaredDifferences(numbers, mean) ==
    [i \in 1..Len(numbers) |-> FMul(FSub(numbers[i], mean), FSub(numbers[i], mean))]

calculateStandardDeviation(numbers) ==
    IF Len(numbers) <= 1 THEN FZero
    ELSE LET mean     == calculateMean(numbers)
             variance == FDiv(ReduceSum(SquaredDifferences(numbers, mean)),
                              FromInt(Len(numbers) - 1))
         IN  FSqrt(variance)

\* The products the loop of calculateCovariance adds up.
Products(xs, ys, xMean, yMean) ==
    [i \in 1..Len(xs) |-> FMul(FSub(xs[i], xMean), FSub(ys[i], yMean))]

calculateCovariance(xs, ys) ==
    IF Len(xs) # Len(ys) \/ Len(xs) <= 1 THEN FZero
    ELSE FDiv(ReduceSum(Products(xs, ys, calculateMean(xs), calculateMean(ys))),
              FromInt(Len(xs) - 1))

calculateCorrelation(xs, ys) ==
    IF Len(xs) # Len(ys) \/ Len(xs) <= 1 THEN FZero
    ELSE LET xStdDev == calculateStandardDeviation(xs)
             yStdDev == calculateStandardDeviation(ys)
         IN  IF xStdDev = FZero \/ yStdDev = FZero THEN FZero
             ELSE FDiv(calculateCovariance(xs, ys), FMul(xStdDev, yStdDev))

\* Math.min(...numbers), Math.max(...numbers) of a non-empty array.
MathMin(numbers) ==
    CHOOSE x \in Range(numbers) : \A y \in Range(numbers) : ~FLess(y, x)
MathMax(numbers) ==
    CHOOSE x \in Range(numbers) : \A y \in Range(numbers) : ~FLess(x, y)

StrMin == <<109, 105, 110>>                           \* "min"
StrMax == <<109, 97, 120>>                            \* "max"
StrMEDIAN == <<77, 69, 68, 73, 65, 78>>               \* "MEDIAN"
StrSum == <<115, 117, 109>>                           \* "sum"

\* str.toLowerCase(), for the letters A-Z.
ToLowerCase(str) ==
    [i \in 1..Len(str) |-> IF 65 <= str[i] /\ str[i] <= 90 THEN str[i] + 32 ELSE str[i]]

\* The type argument: a string, null, or left out.
StringArg(str) == [is |-> "string", chars |-> str]
NullArg == [is |-> "null", chars |-> <<>>]
UndefinedArg == [is |-> "undefined", chars |-> <<>>]

\* What a call ends with: a number, null, or a TypeError raised.
Number(x) == [kind |-> "number", value |-> x]
NullResult == [kind |-> "null", value |-> FZero]
TypeError == [kind |-> "TypeError", value |-> FZero]

\* calculateAggregation with the median under 'average'.
calculateAggregationMedianForAverage(numbers, type) ==
    IF numbers = <<>> THEN NullResult
    ELSE IF type.is = "null" THEN TypeError
    ELSE LET lower == IF type.is = "undefined" THEN StrAverage
                      ELSE ToLowerCase(type.chars)
         IN  IF lower = StrAverage THEN Number(calculateMedian(numbers))
             ELSE IF lower = StrMedian THEN Number(calculateMedian(numbers))
             ELSE IF lower = StrMin THEN Number(MathMin(numbers))
             ELSE IF lower = StrMax THEN Number(MathMax(numbers))
             ELSE Number(calculateMean(numbers))

\* calculateAggregation(numbers, type = 'average'): type.toLowerCase() of
\* null raises a TypeError.
calculateAggregation(numbers, type) ==
    IF numbers = <<>> THEN NullResult
    ELSE IF type.is = "null" THEN TypeError
    ELSE LET lower == IF type.is = "undefined" THEN StrAverage
                      ELSE ToLowerCase(type.chars)
         IN  IF lower = StrAverage THEN Number(calculateMean(numbers))
             ELSE IF lower = StrMedian THEN Number(calculateMedian(numbers))
             ELSE IF lower = StrMin THEN Number(MathMin(numbers))
             ELSE IF lower = StrMax THEN Number(MathMax(numbers))
             ELSE Number(calculateMean(numbers))

\* Nothing returned yet.
NoStat == [aggregation |-> NullResult, mean |-> FZero, correlation |-> FZero]

\* No statistics call.
StatIdle ==
    /\ xValues = <<>>
    /\ yValues = <<>>
    /\ aggType = UndefinedArg
    /\ statOut = NoStat
    /\ statPc = "idle"

\* The two requests in flight.
Procs == {1, 2}

\* No answer of the upstream, nothing returned or thrown.
NoOutcome == [kind |-> "none", status |-> 0]
NoResponse == [value |-> Undefined, status |-> 0]

\* No fetchStockPriceHistory call.
HistoryIdle ==
    /\ pc = [i \in Procs |-> "idle"]
    /\ reqParams = [i \in Procs |-> NoParams]
    /\ upstream = [i \in Procs |-> NoOutcome]
    /\ response = [i \in Procs |-> NoResponse]
    /\ storeOrder = <<>>

\* fetchWithRetry settled with nothing yet.
Unsettled == [kind |-> "none", of |-> "none"]

\* No fetchWithRetry call.
RetryIdle ==
    /\ retryPc = "idle"
    /\ retries = 0
    /\ attempts = 0
    /\ delays = <<>>
    /\ caught = <<>>
    /\ settled = Unsettled

FarIdle == HistoryIdle /\ RetryIdle /\ StatIdle

(***************************************************************************)
(* The aligner as a state machine: any two series upstream can deliver,    *)
(* then one call.                                                          *)
(***************************************************************************)
IsoSeqs == UNION {[1..n -> IsoInstants] : n \in 0..MaxLen}

\* A price history as the upstream API delivers it.
PriceHistory1(isos) ==
    [i \in 1..Len(isos) |->
        [price |-> [num |-> Price1(i), den |-> 1],
         lastUpdatedAt |-> isos[i], interpolated |-> FALSE]]

PriceHistory2(isos) ==
    [i \in 1..Len(isos) |->
        [price |-> [num |-> Price2(i), den |-> 1],
         lastUpdatedAt |-> isos[i], interpolated |-> FALSE]]

NoResult == [stock1 |-> <<>>, stock2 |-> <<>>]

InitAlign ==
    /\ stockData1 \in {PriceHistory1(s) : s \in IsoSeqs}
    /\ stockData2 \in {PriceHistory2(s) : s \in IsoSeqs}
    /\ lastAllTimestamps = <<>>
    /\ alignedData = NoResult
    /\ alignPc = "call"
    /\ CacheIdle
    /\ LogIdle
    /\ HeapIdle
    /\ FarIdle

AlignCall ==
    /\ alignPc = "call"
    /\ lastAllTimestamps' = AllTimestamps(BuildMap(stockData1), BuildMap(stockData2))
    /\ alignedData' = timeAlignPriceData(stockData1, stockData2)
    /\ alignPc' = "done"
    /\ UNCHANGED <<stockData1, stockData2>>
    /\ UNCHANGED nonAlignVars

NextAlign == AlignCall

SpecAlign == InitAlign /\ [][NextAlign]_vars

(***************************************************************************)
(* The cache as a state machine: callers set and get, the clock advances.  *)
(***************************************************************************)
AlignIdle ==
    /\ stockData1 = <<>>
    /\ stockData2 = <<>>
    /\ lastAllTimestamps = <<>>
    /\ alignedData = NoResult
    /\ alignPc = "idle"

Init == CacheIdle /\ AlignIdle /\ LogIdle /\ HeapIdle /\ FarIdle

\* setCachedData(type, params, data, ttl)
setCachedData(type, params, data, ttl) ==
    LET key   == createCacheKey(type, params)
        cache == getCacheForType(type, params.minutes)
    IN  /\ caches' = [caches EXCEPT ![cache] =
                         NodeCacheAfterSet(caches[cache], key, data, ttl,
                                           StdTTL[cache], now)]
        /\ callerParams' = ParamsAfterKey(type, params)
        /\ lastTier' = cache
        /\ lastPut' = [type |-> type, params |-> params, value |-> data, at |-> now]
        /\ lastCall' = [op |-> "set", type |-> type, params |-> params]
        /\ opCount' = opCount + 1
        /\ UNCHANGED <<now, result>>

\* getCachedData(type, params)
getCachedData(type, params) ==
    LET key   == createCacheKey(type, params)
        cache == getCacheForType(type, params.minutes)
    IN  /\ result' = NodeCacheGet(caches[cache], key, now)
        /\ caches' = [caches EXCEPT ![cache] =
                         NodeCacheAfterGet(caches[cache], key, now)]
        /\ callerParams' = ParamsAfterKey(type, params)
        /\ lastTier' = cache
        /\ lastCall' = [op |-> "get", type |-> type, params |-> params]
        /\ opCount' = opCount + 1
        /\ UNCHANGED <<now, lastPut>>

\* Time passes.
\* Time passes: Date.now() is d seconds later.
ClockAdvance(d) ==
    /\ now' = now + d
    /\ UNCHANGED <<caches, callerParams, result, lastTier, lastPut, lastCall, opCount>>

Tick ==
    /\ \E d \in TickSteps :
          /\ now + d <= MaxNow
          /\ ClockAdvance(d)
    /\ UNCHANGED nonCacheVars

Next ==
    \/ /\ opCount < MaxOps
       /\ \E type \in Kinds : \E params \in ParamsOf(type) : \E data \in Values :
             setCachedData(type, params, data, Null)
       /\ UNCHANGED nonCacheVars
    \/ /\ opCount < MaxOps
       /\ \E type \in Kinds : \E params \in ParamsOf(type) :
             getCachedData(type, params)
       /\ UNCHANGED nonCacheVars
    \/ Tick

Spec == Init /\ [][Next]_vars

(***************************************************************************)
(* Vocabulary of the aligner's properties, stated on the inputs and the    *)
(* returned series only.                                                   *)
(***************************************************************************)
AlignDone == alignPc = "done"

\* The getTime() of each point of a series, in the series' order.
TimesOf(series) == [i \in 1..Len(series) |-> DateParse(series[i].lastUpdatedAt)]

TimeSet(series) == Range(TimesOf(series))

UnionTimes == TimeSet(stockData1) \cup TimeSet(stockData2)

SharedTimes == TimeSet(stockData1) \cap TimeSet(stockData2)

IntersectionCase == AlignDone /\ Cardinality(SharedTimes) >= 2

InterpolationCase ==
    AlignDone /\ Cardinality(UnionTimes) > 1 /\ Cardinality(SharedTimes) < 2

StrictlyAscending(seq) ==
    \A i \in 1..Len(seq) : \A j \in 1..Len(seq) : i < j => seq[i] < seq[j]

DistinctTimes(series) ==
    \A i \in 1..Len(series) : \A j \in 1..Len(series) :
        i # j => TimesOf(series)[i] # TimesOf(series)[j]

\* The point of a series that wins at timestamp t: the last one given.
LastPointAt(series, t) ==
    series[CHOOSE i \in 1..Len(series) :
              /\ TimesOf(series)[i] = t
              /\ \A j \in (i + 1)..Len(series) : TimesOf(series)[j] # t]

SetMax(S) == CHOOSE x \in S : \A y \in S : y <= x
SetMin(S) == CHOOSE x \in S : \A y \in S : y >= x

SamePrice(p, q) == p.num * q.den = q.num * p.den

\* p_before + (p_after - p_before) * (t - t_before) / (t_after - t_before)
FormulaPrice(pb, pa, tb, ta, t) ==
    [num |-> pb.num * (ta - tb) + (pa.num - pb.num) * (t - tb),
     den |-> pb.den * (ta - tb)]

HasInterpolated(series) == \E i \in 1..Len(series) : series[i].interpolated

(***************************************************************************)
(* C1: for any two non-empty input series the aligner returns two series   *)
(* of equal length, or, only when the inputs have at most one distinct     *)
(* timestamp between them, the two input series unmodified.                *)
(***************************************************************************)
C1_EqualLengthOrOriginals ==
    (AlignDone /\ stockData1 # <<>> /\ stockData2 # <<>>) =>
        \/ Len(alignedData.stock1) = Len(alignedData.stock2)
        \/ /\ Cardinality(UnionTimes) <= 1
           /\ alignedData.stock1 = stockData1
           /\ alignedData.stock2 = stockData2

(***************************************************************************)
(* C2: when the inputs share at least 2 distinct timestamps the outputs    *)
(* hold exactly the points at the shared timestamps, one per shared        *)
(* timestamp, the i-th points of both outputs at the same timestamp, and   *)
(* no point is marked interpolated.                                        *)
(***************************************************************************)
C2_IntersectionOnly ==
    IntersectionCase =>
        LET o1 == alignedData.stock1
            o2 == alignedData.stock2
        IN  /\ Len(o1) = Cardinality(SharedTimes)
            /\ Len(o2) = Cardinality(SharedTimes)
            /\ TimeSet(o1) = SharedTimes
            /\ TimesOf(o1) = TimesOf(o2)
            /\ \A i \in 1..Len(o1) : o1[i] = LastPointAt(stockData1, TimesOf(o1)[i])
            /\ \A i \in 1..Len(o2) : o2[i] = LastPointAt(stockData2, TimesOf(o2)[i])
            /\ ~HasInterpolated(o1)
            /\ ~HasInterpolated(o2)

\* Two shared timestamps and one only the second series has, which is dropped.
C2_Witness ==
    /\ IntersectionCase
    /\ Cardinality(SharedTimes) = 2
    /\ TimeSet(stockData2) \ TimeSet(stockData1) # {}
    /\ Len(alignedData.stock2) = 2

(***************************************************************************)
(* C3: in the interpolation pass, at a union timestamp t where a series    *)
(* has no exact point, the series' output holds the linear interpolation   *)
(* between its nearest earlier and nearest later real points, marked       *)
(* interpolated, when it has both, and its nearest real point verbatim     *)
(* when it has real points on one side only.                               *)
(***************************************************************************)
C3_SideAsClaimed(series, out) ==
    \A t \in UnionTimes \ TimeSet(series) :
        LET earlier == {x \in TimeSet(series) : x < t}
            later   == {x \in TimeSet(series) : x > t}
            at      == Cardinality({x \in UnionTimes : x <= t})
        IN  (earlier \cup later # {}) =>
              /\ at <= Len(out)
              /\ IF earlier # {} /\ later # {}
                 THEN /\ out[at].interpolated
                      /\ SamePrice(out[at].price,
                            FormulaPrice(LastPointAt(series, SetMax(earlier)).price,
                                         LastPointAt(series, SetMin(later)).price,
                                         SetMax(earlier), SetMin(later), t))
                 ELSE IF earlier # {}
                 THEN out[at] = LastPointAt(series, SetMax(earlier))
                 ELSE out[at] = LastPointAt(series, SetMin(later))

C3_InterpolationAsClaimed ==
    InterpolationCase =>
        /\ C3_SideAsClaimed(stockData1, alignedData.stock1)
        /\ C3_SideAsClaimed(stockData2, alignedData.stock2)

(***************************************************************************)
(* C4: the union of distinct timestamps the aligner builds is in strictly  *)
(* ascending numeric order, whatever the order and magnitude of the input  *)
(* timestamps, so each output of the intersection pass is in ascending     *)
(* timestamp order.                                                        *)
(***************************************************************************)
C4_UnionAscending ==
    AlignDone =>
        /\ StrictlyAscending(lastAllTimestamps)
        /\ IntersectionCase =>
              /\ StrictlyAscending(TimesOf(alignedData.stock1))
              /\ StrictlyAscending(TimesOf(alignedData.stock2))

(***************************************************************************)
(* C5: aligning (B, A) gives the result of aligning (A, B) with stock1     *)
(* and stock2 swapped.                                                     *)
(***************************************************************************)
C5_Symmetry ==
    AlignDone =>
        timeAlignPriceData(stockData2, stockData1) =
            [stock1 |-> alignedData.stock2, stock2 |-> alignedData.stock1]

\* The interpolation pass ran on series given in different orders and made
\* an interpolated point for the first stock.
C5_Witness ==
    /\ InterpolationCase
    /\ HasInterpolated(alignedData.stock1)
    /\ Len(stockData2) >= 2
    /\ TimesOf(stockData2)[1] > TimesOf(stockData2)[2]
    /\ TimesOf(stockData1)[1] < TimesOf(stockData2)[1]

(***************************************************************************)
(* C6: two series in ascending timestamp order with the same timestamps    *)
(* and no duplicates come back unchanged: same points, same order, none    *)
(* marked interpolated.                                                    *)
(***************************************************************************)
C6_Idempotence ==
    (/\ AlignDone
     /\ StrictlyAscending(TimesOf(stockData1))
     /\ TimesOf(stockData1) = TimesOf(stockData2)) =>
        /\ alignedData.stock1 = stockData1
        /\ alignedData.stock2 = stockData2

C8_OmittedFromBoth ==
    InterpolationCase =>
        \A t \in UnionTimes :
            (\E series \in {stockData1, stockData2} : TimeSet(series) = {}) =>
                /\ t \notin TimeSet(alignedData.stock1)
                /\ t \notin TimeSet(alignedData.stock2)

(***************************************************************************)
(* Vocabulary of the cache's properties.                                   *)
(***************************************************************************)
Reversed(pair) == <<pair[2], pair[1]>>

\* The tier's default TTL has not run out on what the last set stored.
LastPutFresh == now <= lastPut.at + StdTTL[lastTier]

\* The last call was a get of the correlation the last set stored, with the
\* two tickers in the other order.
GetOfSwappedPut ==
    /\ lastCall.op = "get"
    /\ lastCall.type = "correlation"
    /\ lastPut.type = "correlation"
    /\ lastCall.params.tickers = Reversed(lastPut.params.tickers)
    /\ lastCall.params.minutes = lastPut.params.minutes

(***************************************************************************)
(* C9: the key of a correlation request for (A, B) equals the key of the   *)
(* request for (B, A) with the same minutes, so a result set for (A, B) is *)
(* what a get for (B, A) returns while the entry is fresh.                 *)
(***************************************************************************)
C9_CorrelationKeySymmetry ==
    /\ lastCall.type = "correlation" =>
          createCacheKey("correlation", lastCall.params) =
              createCacheKey("correlation",
                  [lastCall.params EXCEPT !.tickers = Reversed(lastCall.params.tickers)])
    /\ (GetOfSwappedPut /\ LastPutFresh) => result = lastPut.value

\* Set for (B, A), the clock moved, get for (A, B): a hit.
C9_Witness ==
    /\ GetOfSwappedPut
    /\ lastPut.params.tickers = <<StrB, StrA>>
    /\ now > lastPut.at
    /\ result = lastPut.value

(***************************************************************************)
(* C10: the tier depends on the minutes only: minutes <= 5 use the short   *)
(* tier, 5 < minutes <= 30 the medium tier, minutes > 30 the long tier,    *)
(* for set and for get and for every kind of request.                      *)
(***************************************************************************)
C10_TierByMinutes ==
    lastCall.op # "none" =>
        LET m     == lastCall.params.minutes
            key   == createCacheKey(lastCall.type, lastCall.params)
            other == {tier \in Tiers : key \in DOMAIN caches[tier]}
        IN  /\ m <= 5 => lastTier = "short" /\ other \subseteq {"short"}
            /\ (5 < m /\ m <= 30) => lastTier = "medium" /\ other \subseteq {"medium"}
            /\ m > 30 => lastTier = "long" /\ other \subseteq {"long"}
            /\ lastCall.op = "set" => other # {}
            /\ (lastCall.op = "get" /\ result # Undefined) =>
                  \E tier \in other : caches[tier][key].v = result

\* A 5-minute request sits in the short tier and a 6-minute request has
\* just been stored in the medium tier.
C10_Witness ==
    /\ lastCall.op = "set"
    /\ lastCall.params.minutes = 6
    /\ createCacheKey(lastCall.type, lastCall.params) \in DOMAIN caches["medium"]
    /\ \E type \in Kinds : \E params \in ParamsOf(type) :
          /\ params.minutes = 5
          /\ createCacheKey(type, params) \in DOMAIN caches["short"]

(***************************************************************************)
(* The cache over time: sets with and without a ttl override, gets, the    *)
(* clock, and NodeCache's periodic check (checkperiod) that deletes the    *)
(* expired keys.                                                           *)
(***************************************************************************)
MaxTtlOps == 3
MaxTtlNow == 12

\* The clock's step, in seconds: past the override, and in two steps past
\* the short stdTTL.
TtlTickSteps == {6}

\* The ttl argument of setCachedData: left out (null), 5 seconds, and 0.
TtlOverrides == {Null, 5, 0}

\* The requests of this part: two of one tier, one of another.
TtlRequests ==
    {[type |-> "stockHistory", params |-> [ticker |-> StrA, minutes |-> 5]],
     [type |-> "stockHistory", params |-> [ticker |-> StrB, minutes |-> 5]],
     [type |-> "stockPrice",
      params |-> [ticker |-> StrA, minutes |-> 31, aggregation |-> StrAverage]]}

\* The data of a NodeCache after its periodic check: every expired key is
\* deleted.
NodeCacheAfterCheck(data, time) ==
    [k \in {key \in DOMAIN data : ~Expired(data[key], time)} |-> data[k]]

\* A request's entry of putLog after a set.
Logged(log, req, entry) ==
    [r \in DOMAIN log \cup {req} |-> IF r = req THEN entry ELSE log[r]]

TtlSet ==
    /\ opCount < MaxTtlOps
    /\ \E req \in TtlRequests : \E data \in Values : \E ttl \in TtlOverrides :
          /\ setCachedData(req.type, req.params, data, ttl)
          /\ putLog' = Logged(putLog, req, [value |-> data, at |-> now, ttl |-> ttl,
                                            content |-> heap[data]])
    /\ UNCHANGED <<getAt, invalidated>>
    /\ UNCHANGED outsideVars

TtlGet ==
    /\ opCount < MaxTtlOps
    /\ \E req \in TtlRequests : getCachedData(req.type, req.params)
    /\ getAt' = now
    /\ UNCHANGED <<putLog, invalidated>>
    /\ UNCHANGED outsideVars

TtlTick ==
    /\ \E d \in TtlTickSteps :
          /\ now + d <= MaxTtlNow
          /\ ClockAdvance(d)
    /\ UNCHANGED nonCacheVars

\* The checkperiod timers of the three caches.
TtlCheck ==
    /\ caches' = [tier \in Tiers |-> NodeCacheAfterCheck(caches[tier], now)]
    /\ caches' # caches
    /\ UNCHANGED <<now, callerParams, result, lastTier, lastPut, lastCall, opCount>>
    /\ UNCHANGED nonCacheVars

NextTtl == TtlSet \/ TtlGet \/ TtlTick \/ TtlCheck

SpecTtl == Init /\ [][NextTtl]_vars

\* The request of the last cache call.
LastRequest == [type |-> lastCall.type, params |-> lastCall.params]

\* The number of seconds an entry was stored for: the override when given,
\* otherwise the stdTTL of the request's tier.
Lifetime(req, entry) ==
    IF entry.ttl # Null THEN entry.ttl
    ELSE StdTTL[getCacheForType(req.type, req.params.minutes)]

\* C11: after setCachedData(kind, params, value, ttl), a getCachedData of the
\* same kind and params made before the ttl (the override when given,
\* otherwise the tier's default) has elapsed returns value; a get made after
\* it has elapsed, or for a request never stored, returns a miss.
C11_TtlContract ==
    lastCall.op = "get" =>
        IF LastRequest \notin DOMAIN putLog
        THEN result = Undefined
        ELSE LET entry == putLog[LastRequest]
                 until == entry.at + Lifetime(LastRequest, entry)
             IN  /\ getAt < until => result = entry.value
                 /\ getAt > until => result = Undefined

\* The same contract for the sets whose ttl is not 0.
C11_TtlContractNonZero ==
    (/\ lastCall.op = "get"
     /\ LastRequest \in DOMAIN putLog
     /\ putLog[LastRequest].ttl = 0) \/ C11_TtlContract

\* A get, after an override of 5 seconds has elapsed, misses while ...
C11_OverrideElapsed ==
    /\ lastCall.op = "get"
    /\ LastRequest \in DOMAIN putLog
    /\ putLog[LastRequest].ttl = 5
    /\ getAt = putLog[LastRequest].at + 6
    /\ result = Undefined

\* ... a get of another entry of the same tier, stored at the same time
\* without an override, hits.
C11_OtherEntryKept ==
    /\ lastCall.op = "get"
    /\ LastRequest \in DOMAIN putLog
    /\ putLog[LastRequest].ttl = Null
    /\ getAt = putLog[LastRequest].at + 6
    /\ result = putLog[LastRequest].value
    /\ \E other \in DOMAIN putLog :
          /\ other # LastRequest
          /\ other.params.minutes = LastRequest.params.minutes
          /\ putLog[other].ttl = 5
          /\ putLog[other].at = putLog[LastRequest].at

(***************************************************************************)
(* invalidateCache, among sets, gets, the clock and the periodic check.    *)
(***************************************************************************)
StrFive == <<53>>                                     \* "5"

\* The patterns handed to invalidateCache: a ticker, a key prefix, a
\* minutes value, the separator every key holds, the empty string and a
\* string of no key.
Patterns == {StrA, StrB, StrHistory, StrFive, StrColon, <<>>, StrUnderscore}

\* str.includes(search), at the start of str only.
IncludesAtStart(str, search) ==
    /\ Len(search) <= Len(str)
    /\ SubSeq(str, 1, Len(search)) = search

\* str.includes(search)
Includes(str, search) ==
    \E i \in 0..(Len(str) - Len(search)) :
        SubSeq(str, i + 1, i + Len(search)) = search

\* The keys of cache.keys() that invalidateCache deletes.
KeysToInvalidate(data, pattern) == {key \in DOMAIN data : Includes(key, pattern)}

\* The data of a NodeCache after cache.del(key) for each of the keys.
NodeCacheAfterDel(data, keys) == [k \in DOMAIN data \ keys |-> data[k]]

\* invalidatedCount after the tiers of the sequence were gone through.
RECURSIVE InvalidatedCount(_, _, _)
InvalidatedCount(cs, tiers, pattern) ==
    IF tiers = <<>> THEN 0
    ELSE Cardinality(KeysToInvalidate(cs[Head(tiers)], pattern))
         + InvalidatedCount(cs, Tail(tiers), pattern)

\* invalidateCache(pattern)
invalidateCache(pattern) ==
    /\ caches' = [tier \in Tiers |->
                     NodeCacheAfterDel(caches[tier],
                                       KeysToInvalidate(caches[tier], pattern))]
    /\ invalidated' =
          [pattern |-> pattern,
           count   |-> InvalidatedCount(caches, <<"short", "medium", "long">>, pattern)]
    /\ lastCall' = [op |-> "invalidate", type |-> "none", params |-> NoParams]
    /\ opCount' = opCount + 1
    /\ UNCHANGED <<now, callerParams, result, lastTier, lastPut>>

Invalidate ==
    /\ opCount < MaxTtlOps
    /\ \E pattern \in Patterns : invalidateCache(pattern)
    /\ UNCHANGED <<putLog, getAt>>
    /\ UNCHANGED outsideVars

NextInvalidate == TtlSet \/ TtlGet \/ TtlTick \/ TtlCheck \/ Invalidate

SpecInvalidate == Init /\ [][NextInvalidate]_vars

\* sub occurs in key as a run of consecutive code units.
Contains(key, sub) ==
    \E i \in 1..(Len(key) + 1) : \E j \in 0..Len(key) : SubSeq(key, i, j) = sub

\* The entries of all tiers, as (tier, key) pairs.
Entries(cs) == {e \in Tiers \X UNION {DOMAIN cs[tier] : tier \in Tiers} :
                   e[2] \in DOMAIN cs[e[1]]}

\* What an invalidateCache step does to the caches and returns.
InvalidateEffect ==
    LET pattern == invalidated'.pattern
        removed == {e \in Entries(caches) : Contains(e[2], pattern)}
        kept    == Entries(caches) \ removed
    IN  /\ Entries(caches') = kept
        /\ \A e \in kept : caches'[e[1]][e[2]] = caches[e[1]][e[2]]
        /\ invalidated'.count = Cardinality(removed)

\* C12: invalidateCache(substring) removes from all three tiers every entry
\* whose key contains substring, returns the number of entries removed, and
\* leaves every entry whose key does not contain substring unchanged.
C12_InvalidateRemovesExactlyMatching ==
    [][(opCount' = opCount + 1 /\ lastCall'.op = "invalidate") => InvalidateEffect]_vars

\* An invalidateCache that removed one entry and left another one.
C12_Witness ==
    /\ lastCall.op = "invalidate"
    /\ invalidated = [pattern |-> StrHistory, count |-> 1]
    /\ Cardinality(Entries(caches)) = 1

(***************************************************************************)
(* The caches store references (useClones: false): the object handed to    *)
(* setCachedData is the object the cache holds, and the object             *)
(* getCachedData returns is that same object.                              *)
(***************************************************************************)

\* The objects a caller holds: those it stored and the one it last got.
HeldObjects == {putLog[req].value : req \in DOMAIN putLog} \cup ({result} \ {Undefined})

\* A caller changes an object it holds.
CallerMutates ==
    /\ \E obj \in HeldObjects :
          /\ heap[obj] = "original"
          /\ heap' = [heap EXCEPT ![obj] = "mutated"]
    /\ UNCHANGED <<cacheVars, logVars, alignVars, farVars>>

NextAlias == TtlSet \/ TtlGet \/ CallerMutates

SpecAlias == Init /\ [][NextAlias]_vars

\* C13: after a value is stored with setCachedData or obtained with
\* getCachedData, a caller's later mutation of that object does not change
\* the value a later getCachedData returns for the same key: every get that
\* hits returns the content that was stored.
C13_NoMutableHandle ==
    [][(/\ opCount' = opCount + 1
        /\ lastCall'.op = "get"
        /\ result' # Undefined)
       => heap'[result'] = putLog'[LastRequest'].content]_vars

(***************************************************************************)
(* fetchStockPriceHistory, called by two requests at a time.  A call runs  *)
(* up to its await of the upstream fetch in one piece, and from the        *)
(* upstream's answer to its return or throw in one piece; the pieces of    *)
(* the two calls interleave.                                               *)
(***************************************************************************)

\* The params objects of the calls: minutesBack values for which
\* minutesBack * 0.2 is a whole number of seconds.
HistoryMinutes == {5, 30}
HistoryParams == [ticker : Tickers, minutes : HistoryMinutes]

\* How the awaited fetchWithRetry ends: a response with a priceHistory
\* array, a response without one, or a thrown error that carries the
\* upstream's response (with its status), the request only, or neither.
Outcomes ==
    {[kind |-> "ok", status |-> 200],
     [kind |-> "invalid", status |-> 200],
     [kind |-> "response", status |-> 404],
     [kind |-> "response", status |-> 503],
     [kind |-> "request", status |-> 0],
     [kind |-> "other", status |-> 0]}

\* The error that reaches the catch block: the upstream's for a failed
\* fetch, the createError(502, ...) thrown inside the try for a response
\* without a priceHistory array.
CaughtError(outcome) ==
    IF outcome.kind = "invalid"
    THEN [response |-> 0, request |-> FALSE, status |-> 502]
    ELSE IF outcome.kind = "response"
    THEN [response |-> outcome.status, request |-> TRUE, status |-> 0]
    ELSE IF outcome.kind = "request"
    THEN [response |-> 0, request |-> TRUE, status |-> 0]
    ELSE [response |-> 0, request |-> FALSE, status |-> 0]

\* The status of the error the catch block throws.
TransformedStatus(error) ==
    IF error.response # 0 THEN error.response
    ELSE IF error.request THEN 504
    ELSE 500

\* The status the HTTP error handler answers with for an error a controller
\* caught: err.status when it has one, otherwise 500.
ErrorHandlerStatus(status) == IF status # 0 THEN status ELSE 500

\* smartTtl = Math.min(minutesBack * 0.2, 60), in seconds.
SmartTtl(minutesBack) ==
    IF minutesBack * 2 >= 600 THEN 60 ELSE (minutesBack * 2) \div 10

InitHistory ==
    /\ CacheIdle
    /\ AlignIdle
    /\ LogIdle
    /\ HeapIdle
    /\ RetryIdle
    /\ StatIdle
    /\ pc = [i \in Procs |-> "call"]
    /\ reqParams \in [Procs -> HistoryParams]
    /\ upstream = [i \in Procs |-> NoOutcome]
    /\ response = [i \in Procs |-> NoResponse]
    /\ storeOrder = <<>>

\* The call up to its await: the cache lookup, and the return of the cached
\* data on a hit.
HistoryCall(i) ==
    /\ pc[i] = "call"
    /\ getCachedData("stockHistory", reqParams[i])
    /\ IF result' # Undefined   \* if (cachedData): an object is truthy
       THEN /\ pc' = [pc EXCEPT ![i] = "done"]
            /\ response' = [response EXCEPT ![i] = [value |-> result', status |-> 200]]
       ELSE /\ pc' = [pc EXCEPT ![i] = "fetching"]
            /\ UNCHANGED response
    /\ UNCHANGED <<reqParams, upstream, storeOrder>>
    /\ UNCHANGED <<alignVars, logVars, heap, retryVars, statVars>>

\* From the upstream's answer on: the filtered history is stored and
\* returned, or the error is transformed and thrown.
HistoryReply(i) ==
    /\ pc[i] = "fetching"
    /\ \E outcome \in Outcomes :
          /\ upstream' = [upstream EXCEPT ![i] = outcome]
          /\ IF outcome.kind = "ok"
             THEN \E filteredHistory \in Values :
                     /\ setCachedData("stockHistory", reqParams[i], filteredHistory,
                                      SmartTtl(reqParams[i].minutes))
                     /\ pc' = [pc EXCEPT ![i] = "done"]
                     /\ response' = [response EXCEPT ![i] =
                                        [value |-> filteredHistory, status |-> 200]]
                     /\ storeOrder' = Append(storeOrder, i)
             ELSE /\ pc' = [pc EXCEPT ![i] = "failed"]
                  /\ response' = [response EXCEPT ![i] =
                                     [value |-> Undefined,
                                      status |-> TransformedStatus(CaughtError(outcome))]]
                  /\ UNCHANGED storeOrder
                  /\ UNCHANGED cacheVars
    /\ UNCHANGED reqParams
    /\ UNCHANGED <<alignVars, logVars, heap, retryVars, statVars>>

NextHistory ==
    \/ \E i \in Procs : HistoryCall(i)
    \/ \E i \in Procs : HistoryReply(i)
    \/ TtlTick

SpecHistory == InitHistory /\ [][NextHistory]_vars

\* The tiers that hold an entry under the key of a stockHistory request.
TiersHolding(params) ==
    {tier \in Tiers : createCacheKey("stockHistory", params) \in DOMAIN caches[tier]}

\* Both requests missed, fetched and stored, for the same key.
BothStored ==
    /\ Len(storeOrder) = 2
    /\ reqParams[1] = reqParams[2]

\* C14: the check-cache, compute, store pipeline is not atomic: when two
\* requests for the same key both miss and both compute, the cache
\* afterwards holds exactly one entry for that key, whose value is that of
\* the put executed last, in every interleaving; and a request fails only
\* on its own upstream answer, never because of the other request.
C14_LastPutWins ==
    /\ BothStored =>
          LET params == reqParams[1]
              tier   == getCacheForType("stockHistory", params.minutes)
              key    == createCacheKey("stockHistory", params)
          IN  /\ TiersHolding(params) = {tier}
              /\ caches[tier][key].v = response[storeOrder[2]].value
    /\ \A i \in Procs :
          /\ pc[i] = "failed" => upstream[i].kind \notin {"none", "ok"}
          /\ upstream[i].kind = "ok" => pc[i] = "done"

\* Both requests missed before either stored, and stored different values.
C14_Witness ==
    /\ BothStored
    /\ now = 0
    /\ response[1].value # response[2].value
    /\ storeOrder = <<2, 1>>

\* The requests that stored something.
Storers == {storeOrder[n] : n \in 1..Len(storeOrder)}

\* C18: when the upstream answers successfully but its body has no
\* priceHistory array, fetchStockPriceHistory fails with an error of status
\* 502, that status reaches the HTTP error handler unchanged, and nothing is
\* stored in the cache for that request.
C18_InvalidResponseIs502 ==
    \A i \in Procs :
        upstream[i].kind = "invalid" =>
            /\ pc[i] = "failed"
            /\ response[i].status = 502
            /\ ErrorHandlerStatus(response[i].status) = 502
            /\ i \notin Storers

\* What does hold of such an answer: the call fails and stores nothing.
C18_InvalidResponseFailsUncached ==
    \A i \in Procs :
        upstream[i].kind = "invalid" =>
            /\ pc[i] = "failed"
            /\ response[i].status = 500
            /\ i \notin Storers

(***************************************************************************)
(* fetchWithRetry(url, options, maxRetries = 3): the loop of GET attempts  *)
(* and backoff waits.                                                      *)
(***************************************************************************)
maxRetries == 3

\* What a GET can end with: a response, or one of the errors axios throws.
Responses == {"r1", "r2"}
Errors == {"e404", "e503", "timeout", "reset"}

\* Math.pow(2, retries) * 300, counting the failures from 0.
BackoffDelayFromZero(n) == 2^(n - 1) * 300

\* delay = Math.pow(2, retries) * 300
BackoffDelay(n) == 2^n * 300

InitRetry ==
    /\ CacheIdle
    /\ AlignIdle
    /\ LogIdle
    /\ HeapIdle
    /\ HistoryIdle
    /\ StatIdle
    /\ retryPc = "loop"
    /\ retries = 0
    /\ attempts = 0
    /\ delays = <<>>
    /\ caught = <<>>
    /\ settled = Unsettled

\* The while test: a failed test leaves the loop and the function returns
\* undefined.
LoopTest ==
    /\ retryPc = "loop"
    /\ IF retries < maxRetries
       THEN retryPc' = "get" /\ UNCHANGED settled
       ELSE retryPc' = "done" /\ settled' = [kind |-> "returned", of |-> Undefined]
    /\ UNCHANGED <<retries, attempts, delays, caught>>
    /\ UNCHANGED <<cacheVars, alignVars, logVars, heap, historyVars, statVars>>

\* await apiClient.get(url, options) answers: the response is returned.
GetSucceeds ==
    /\ retryPc = "get"
    /\ attempts' = attempts + 1
    /\ \E r \in Responses : settled' = [kind |-> "returned", of |-> r]
    /\ retryPc' = "done"
    /\ UNCHANGED <<retries, delays, caught>>
    /\ UNCHANGED <<cacheVars, alignVars, logVars, heap, historyVars, statVars>>

\* await apiClient.get(url, options) throws: the catch block counts the
\* failure and rethrows, or computes the delay and starts the timer.
GetFails ==
    /\ retryPc = "get"
    /\ attempts' = attempts + 1
    /\ retries' = retries + 1
    /\ \E error \in Errors :
          /\ caught' = Append(caught, error)
          /\ IF retries' = maxRetries
             THEN /\ settled' = [kind |-> "thrown", of |-> error]
                  /\ retryPc' = "done"
                  /\ UNCHANGED delays
             ELSE /\ delays' = Append(delays, BackoffDelay(retries'))
                  /\ retryPc' = "wait"
                  /\ UNCHANGED settled
    /\ UNCHANGED <<cacheVars, alignVars, logVars, heap, historyVars, statVars>>

\* The timer fires: the loop goes round.
TimerFires ==
    /\ retryPc = "wait"
    /\ retryPc' = "loop"
    /\ UNCHANGED <<retries, attempts, delays, caught, settled>>
    /\ UNCHANGED <<cacheVars, alignVars, logVars, heap, historyVars, statVars>>

NextRetry == LoopTest \/ GetSucceeds \/ GetFails \/ TimerFires

\* Every GET settles (the client's timeout is 5000 ms) and every timer fires.
SpecRetry == InitRetry /\ [][NextRetry]_vars /\ WF_vars(NextRetry)

\* The delays the claim names, in order.
ClaimedDelays == <<600, 1200>>

\* What holds of the call at every moment.
RetryBounded ==
    /\ attempts <= 3
    /\ Len(caught) <= attempts
    /\ delays = SubSeq(ClaimedDelays, 1, Len(delays))
    /\ retryPc \in {"loop", "wait"} => Len(delays) = Len(caught)
    /\ settled.kind = "returned" =>
          /\ settled.of \in Responses
          /\ attempts = Len(caught) + 1
          /\ Len(delays) = Len(caught)
    /\ settled.kind = "thrown" =>
          /\ attempts = 3
          /\ Len(caught) = 3
          /\ settled.of = caught[3]
          /\ delays = ClaimedDelays

\* C19: fetchWithRetry with maxRetries = 3 always terminates after at most 3
\* GET attempts: it returns the first successful response without further
\* attempts, waits 600 ms after the 1st failure and 1200 ms after the 2nd
\* before the next attempt, and after the 3rd failure throws that attempt's
\* error with no further wait.
C19_RetryTerminates == []RetryBounded /\ <>(settled.kind # "none")

\* Three failures: the third attempt's error is thrown after two waits.
C19_Witness ==
    /\ settled.kind = "thrown"
    /\ attempts = 3
    /\ delays = <<600, 1200>>
    /\ caught[1] # caught[3]

(***************************************************************************)
(* The params argument across a cache call.                                *)
(***************************************************************************)

\* C20: createCacheKey, getCachedData and setCachedData leave their params
\* argument unchanged: after a cache call the params object (and with it the
\* request's validated tickers array, which it shares) is as it was passed,
\* the order of params.tickers included.
C20_ParamsUnchanged ==
    lastCall.op \in {"get", "set"} => callerParams = lastCall.params

\* What does hold: the params of a call that is not a correlation call, and
\* every field but the order of the tickers of one that is.
C20_OnlyTickersReordered ==
    lastCall.op \in {"get", "set"} =>
        IF lastCall.type = "correlation"
        THEN /\ callerParams.minutes = lastCall.params.minutes
             /\ Range(callerParams.tickers) = Range(lastCall.params.tickers)
        ELSE callerParams = lastCall.params

(***************************************************************************)
(* The statistics functions called on arrays of prices.                    *)
(***************************************************************************)
MaxStatLen == 3

\* The prices: whole numbers below 2^Precision.
StatNumbers == {FromInt(1), FromInt(3), FromInt(7)}

SeqsUpTo(S, n) == UNION {[1..k -> S] : k \in 0..n}

\* The type arguments: the four aggregations, one in upper case, a string
\* that names none, null, and none given.
AggTypes ==
    {StringArg(StrAverage), StringArg(StrMedian), StringArg(StrMin), StringArg(StrMax),
     StringArg(StrMEDIAN), StringArg(StrSum), NullArg, UndefinedArg}

InitCorrelation ==
    /\ CacheIdle
    /\ AlignIdle
    /\ LogIdle
    /\ HeapIdle
    /\ HistoryIdle
    /\ RetryIdle
    /\ xValues \in SeqsUpTo(StatNumbers, MaxStatLen)
    /\ yValues \in SeqsUpTo(StatNumbers, MaxStatLen)
    /\ aggType = UndefinedArg
    /\ statOut = NoStat
    /\ statPc = "call"

CorrelationCall ==
    /\ statPc = "call"
    /\ statOut' = [statOut EXCEPT !.correlation = calculateCorrelation(xValues, yValues)]
    /\ statPc' = "done"
    /\ UNCHANGED <<xValues, yValues, aggType>>
    /\ UNCHANGED <<cacheVars, alignVars, logVars, heap, historyVars, retryVars>>

NextCorrelation == CorrelationCall

SpecCorrelation == InitCorrelation /\ [][NextCorrelation]_vars

InitAggregation ==
    /\ CacheIdle
    /\ AlignIdle
    /\ LogIdle
    /\ HeapIdle
    /\ HistoryIdle
    /\ RetryIdle
    /\ xValues \in SeqsUpTo(StatNumbers, MaxStatLen)
    /\ yValues = <<>>
    /\ aggType \in AggTypes
    /\ statOut = NoStat
    /\ statPc = "call"

\* calculateAggregation(xValues, aggType) and calculateMean(xValues)
AggregationCall ==
    /\ statPc = "call"
    /\ statOut' = [statOut EXCEPT !.aggregation = calculateAggregation(xValues, aggType),
                                  !.mean = calculateMean(xValues)]
    /\ statPc' = "done"
    /\ UNCHANGED <<xValues, yValues, aggType>>
    /\ UNCHANGED <<cacheVars, alignVars, logVars, heap, historyVars, retryVars>>

NextAggregation == AggregationCall

SpecAggregation == InitAggregation /\ [][NextAggregation]_vars

StatDone == statPc = "done"

\* All elements equal.
IsConstant(numbers) == \A i, j \in 1..Len(numbers) : numbers[i] = numbers[j]

\* C15: calculateCorrelation(xs, ys) returns exactly 0 whenever
\* len(xs) # len(ys), or either input has length <= 1, or either input is
\* constant (all elements equal).
C15_DegenerateCorrelationIsZero ==
    (/\ StatDone
     /\ \/ Len(xValues) # Len(yValues)
        \/ Len(xValues) <= 1
        \/ Len(yValues) <= 1
        \/ IsConstant(xValues)
        \/ IsConstant(yValues))
    => statOut.correlation = FZero

\* What does hold: 0 for unequal lengths and for at most one point.
C15_LengthCasesAreZero ==
    (/\ StatDone
     /\ \/ Len(xValues) # Len(yValues)
        \/ Len(xValues) <= 1)
    => statOut.correlation = FZero

\* C16 as stated: for every sequence xs, the empty one included,
\* calculateAggregation(xs, 'average') equals calculateMean(xs).
C16_AverageIsMean ==
    (StatDone /\ aggType = StringArg(StrAverage))
    => statOut.aggregation = Number(statOut.mean)

\* C16: for every non-empty sequence xs, calculateAggregation(xs, 'average')
\* equals calculateMean(xs); for the empty sequence the aggregation is null
\* and the mean is 0.
C16_AverageIsMeanUnlessEmpty ==
    (StatDone /\ aggType = StringArg(StrAverage))
    => IF xValues = <<>>
       THEN statOut.aggregation = NullResult /\ statOut.mean = FZero
       ELSE statOut.aggregation = Number(statOut.mean)

\* The average of 3, 3, 7: the sum 13 is rounded to 12 and the mean is 4.
C16_Witness ==
    /\ StatDone
    /\ aggType = StringArg(StrAverage)
    /\ xValues = <<FromInt(3), FromInt(3), FromInt(7)>>
    /\ statOut.aggregation = Number(FromInt(4))
    /\ statOut.mean = FromInt(4)

\* x is the least / the greatest element of numbers.
IsLeast(x, numbers) ==
    x \in Range(numbers) /\ \A i \in 1..Len(numbers) : ~FLess(numbers[i], x)
IsGreatest(x, numbers) ==
    x \in Range(numbers) /\ \A i \in 1..Len(numbers) : ~FLess(x, numbers[i])

\* C17: calculateAggregation never raises: it returns null only when the
\* input sequence is empty, and for every non-empty sequence it returns the
\* mean, median, minimum or maximum for kind average, median, min, max, and
\* the mean for every other kind value.
C17_AggregationByKind ==
    StatDone =>
        /\ statOut.aggregation.kind # "TypeError"
        /\ statOut.aggregation.kind = "null" <=> xValues = <<>>
        /\ xValues # <<>> =>
              /\ statOut.aggregation.kind = "number"
              /\ IF aggType = StringArg(StrAverage)
                 THEN statOut.aggregation.value = statOut.mean
                 ELSE IF aggType = StringArg(StrMedian)
                 THEN statOut.aggregation.value = calculateMedian(xValues)
                 ELSE IF aggType = StringArg(StrMin)
                 THEN IsLeast(statOut.aggregation.value, xValues)
                 ELSE IF aggType = StringArg(StrMax)
                 THEN IsGreatest(statOut.aggregation.value, xValues)
                 ELSE statOut.aggregation.value = statOut.mean

\* What does hold: the same for the kinds the validator lets through, for
\* a string that names no aggregation in any case, and for no kind given.
C17_AggregationByKnownKind ==
    (StatDone /\ aggType \notin {StringArg(StrMEDIAN), NullArg}) => C17_AggregationByKind

(***************************************************************************)
(* middleware/validators.js and the keys of the requests it accepts.       *)
(* A raw request carries what Express hands the validator: the ticker      *)
(* strings as typed, the minutes already through parseInt (a number or     *)
(* NaN), and the aggregation string (empty when the query leaves it out).  *)
(***************************************************************************)
MaxKeyOps == 2

\* String.prototype.toUpperCase on the code units a..z.
ToUpperCase(str) ==
    [i \in 1..Len(str) |-> IF 97 <= str[i] /\ str[i] <= 122 THEN str[i] - 32 ELSE str[i]]

\* ticker.trim() === '': nothing but white space.
IsBlank(str) == \A i \in 1..Len(str) : str[i] = 32

\* parseInt(req.query.minutes): a number, or NaN.
NaN == [nan |-> TRUE, n |-> 0]
Parsed(n) == [nan |-> FALSE, n |-> n]

\* parseInt(...) || fallback: NaN and 0 are falsy.
ParsedOr(parsed, fallback) ==
    IF parsed.nan \/ parsed.n = 0 THEN fallback ELSE parsed.n

\* The tickers as typed: "", " ", "a", "B", "A_A", "a_b".
RawTickers ==
    {<<>>, <<32>>, <<97>>, StrB, <<65, 95, 65>>, <<97, 95, 98>>}
RawMinutes == {NaN, Parsed(0), Parsed(-3), Parsed(31), Parsed(1441)}
\* The aggregation as typed: left out, "median", "MEDIAN".
RawAggregation == {<<>>, StrMedian, <<77, 69, 68, 73, 65, 78>>}
validAggregations == {StrAverage, StrMedian, StrMin, StrMax}

RawStockRequests ==
    [ticker : RawTickers, minutes : RawMinutes, aggregation : RawAggregation]
RawCorrelationRequests ==
    [tickers : [1..2 -> RawTickers], minutes : RawMinutes]

\* validateStockParams: whether next() is called without an error, and the
\* validatedParams it leaves on the request.
validateStockParams(req) ==
    LET ticker      == req.ticker
        minutes     == ParsedOr(req.minutes, 5)
        aggregation == IF req.aggregation = <<>> THEN StrAverage ELSE req.aggregation
    IN  [accepted |->
            /\ ~ (ticker = <<>> \/ IsBlank(ticker))
            /\ ~ (minutes <= 0 \/ minutes > 1440)
            /\ aggregation \in validAggregations,
         validatedParams |->
            [ticker      |-> ToUpperCase(ticker),
             minutes     |-> minutes,
             aggregation |-> aggregation]]

\* validateCorrelationParams, for a query that names two tickers.
validateCorrelationParams(req) ==
    LET tickers == req.tickers
        minutes == ParsedOr(req.minutes, 60)
    IN  [accepted |->
            /\ ~ (\E i \in 1..2 : IsBlank(tickers[i]))
            /\ ~ (minutes <= 0 \/ minutes > 1440),
         validatedParams |->
            [tickers |-> [i \in 1..2 |-> ToUpperCase(tickers[i])],
             minutes |-> minutes]]

\* The cache requests made for an accepted request: the stock controller
\* looks up stockPrice with the validated params, the correlation
\* controller looks up correlation, and the histories are fetched by ticker
\* and minutes.
ValidatedStock ==
    {validateStockParams(req).validatedParams :
        req \in {r \in RawStockRequests : validateStockParams(r).accepted}}
ValidatedCorrelation ==
    {validateCorrelationParams(req).validatedParams :
        req \in {r \in RawCorrelationRequests : validateCorrelationParams(r).accepted}}

KeyRequests ==
       {[type |-> "stockPrice", params |-> p] : p \in ValidatedStock}
  \cup {[type |-> "stockHistory",
         params |-> [ticker |-> p.ticker, minutes |-> p.minutes]] : p \in ValidatedStock}
  \cup {[type |-> "correlation", params |-> p] : p \in ValidatedCorrelation}

KeySet ==
    /\ opCount < MaxKeyOps
    /\ \E req \in KeyRequests : \E data \in Values : \E ttl \in TtlOverrides :
          /\ setCachedData(req.type, req.params, data, ttl)
          /\ putLog' = Logged(putLog, req, [value |-> data, at |-> now, ttl |-> ttl,
                                            content |-> heap[data]])
    /\ UNCHANGED <<getAt, invalidated>>
    /\ UNCHANGED outsideVars

KeyGet ==
    /\ opCount < MaxKeyOps
    /\ \E req \in KeyRequests : getCachedData(req.type, req.params)
    /\ getAt' = now
    /\ UNCHANGED <<putLog, invalidated>>
    /\ UNCHANGED outsideVars

NextKeys == KeySet \/ KeyGet

SpecKeys == Init /\ [][NextKeys]_vars

\* Two requests are the same request when they agree in kind, in minutes,
\* and in the ticker, the aggregation, or the unordered set of tickers.
SameRequest(r1, r2) ==
    /\ r1.type = r2.type
    /\ r1.params.minutes = r2.params.minutes
    /\ IF r1.type = "correlation"
       THEN Range(r1.params.tickers) = Range(r2.params.tickers)
       ELSE IF r1.type = "stockHistory"
       THEN r1.params.ticker = r2.params.ticker
       ELSE /\ r1.params.ticker = r2.params.ticker
            /\ r1.params.aggregation = r2.params.aggregation

SameKey(r1, r2) ==
    createCacheKey(r1.type, r1.params) = createCacheKey(r2.type, r2.params)

KeyHit == lastCall.op = "get" /\ result # Undefined

\* C21: createCacheKey is injective on the requests the validators accept:
\* a request that was stored and the request just made have the same key
\* only when they are the same request, so a lookup that hits returns what
\* was stored for that very request.
C21_KeyInjective ==
    lastCall.op # "none" =>
        \A r \in DOMAIN putLog :
            /\ SameKey(r, LastRequest) => SameRequest(r, LastRequest)
            /\ (KeyHit /\ putLog[r].value = result) => SameRequest(r, LastRequest)

\* A lookup for the tickers A and A_B that hits on what was stored for the
\* tickers A_A and B.
C21_ForeignHit ==
    /\ KeyHit
    /\ lastCall.type = "correlation"
    /\ \E r \in DOMAIN putLog :
          /\ r.type = "correlation"
          /\ Range(r.params.tickers) # Range(lastCall.params.tickers)
          /\ SameKey(r, LastRequest)
          /\ putLog[r].value = result
          /\ \A other \in DOMAIN putLog : other = r

\* What does hold: the keys of the stockPrice and stockHistory requests are
\* injective, and so are those of two correlation requests none of whose
\* tickers holds the separator of the join.
NoSeparator(r) ==
    r.type = "correlation" =>
        \A i \in 1..2 : \A j \in 1..Len(r.params.tickers[i]) :
            r.params.tickers[i][j] # StrUnderscore[1]

C21_KeyInjectiveWithoutSeparator ==
    lastCall.op # "none" =>
        \A r \in DOMAIN putLog :
            (NoSeparator(r) /\ NoSeparator(LastRequest) /\ SameKey(r, LastRequest))
                => SameRequest(r, LastRequest)
====
